---- MODULE Spec2Model ----
(***************************************************************************)
(* A model of strands_utcp.utcp_tool_adapter: the UtcpToolAdapter          *)
(* lifecycle (start / stop / scoped use), its delegation of discovery,     *)
(* search and invocation to the external UTCP client, and the wrapped      *)
(* tool's entry points (call, stream).                                     *)
(*                                                                         *)
(* Python values are modelled as follows.                                  *)
(*   - a dict is a TLA+ function whose domain is its set of keys;          *)
(*   - a list is a sequence;                                               *)
(*   - a text built by an f-string is the sequence of its fragments, so    *)
(*     that  f"prefix: {e}"  is  <<"prefix: ">> \o Str(e);                 *)
(*   - an object is a record with a "tag" naming its class.                *)
(* The external client (UtcpClient) is the environment: each of its three  *)
(* operations either returns a value or raises, chosen nondeterministically*)
(* from small sets.                                                        *)
(***************************************************************************)
EXTENDS Naturals, Sequences, FiniteSets, TLC

\* ------------------------------------------------------------------ bounds
\* The most descriptors one client query returns.
MaxTools == 2

\* --------------------------------------------------------------- constants
DiscoveryLimit == 1000
DefaultSearchLimit == 100

\* ------------------------------------------------------------------ values
None == [tag |-> "None"]

\* The one adapter instance under study.
Self == [tag |-> "UtcpToolAdapter", id |-> 1]

Client(i) == [tag |-> "UtcpClient", id |-> i]

\* Python truthiness of the client handle (a client object is truthy).
Truthy(handle) == handle # None

\* str(e) of an exception: its message fragments.
Str(e) == e.msg

\* Exceptions the external client raises.
ConnectionFailed == [type |-> "Exception", msg |-> <<"Connection failed">>, cause |-> None]

ClientTimeout == [type |-> "TimeoutError", msg |-> <<"timed out">>, cause |-> None]

ExternalErrors == {ConnectionFailed, ClientTimeout}

\* KeyError(k): str() of a KeyError is the repr of the key.
KeyError(k) == [type |-> "KeyError", msg |-> <<"'", k, "'">>, cause |-> None]

NotInitializedMsg == "UTCP client not initialized"

InitFailedPrefix == "UTCP tool adapter initialization failed: "

ExecFailedPrefix == "Tool execution failed: "

\* raise UtcpToolAdapterError(msg)            (cause None)
\* raise UtcpToolAdapterError(msg) from e     (cause e)
UtcpToolAdapterError(msg, cause) == [type |-> "UtcpToolAdapterError", msg |-> msg, cause |-> cause]

\* External tool descriptors (utcp.data.tool.Tool), by name.
ToolNames == {"a.b", "a_b"}

UTCPTool(n) == [tag |-> "Tool", name |-> n]

Descriptors == {UTCPTool(n) : n \in ToolNames}

\* UtcpAgentTool(utcp_tool, adapter)
UtcpAgentTool(utcp_tool, adapter) == [tag |-> "UtcpAgentTool", utcp_tool |-> utcp_tool, adapter |-> adapter]

\* Mutant of WrapAll: the wrapped tools come out in reverse order.
WrapAllReversed(utcp_tools, adapter) ==
    [i \in 1..Len(utcp_tools) |-> UtcpAgentTool(utcp_tools[Len(utcp_tools) + 1 - i], adapter)]

\* [UtcpAgentTool(tool, self) for tool in utcp_tools]
WrapAll(utcp_tools, adapter) == [i \in 1..Len(utcp_tools) |-> UtcpAgentTool(utcp_tools[i], adapter)]

\* Sequences over S of length at most n.
SeqUpTo(S, n) == UNION {[1..k -> S] : k \in 0..n}

\* dict.get(k, default)
Get(d, k, default) == IF k \in DOMAIN d THEN d[k] ELSE default

\* ------------------------------------------------------- configuration
\* Optional integrations whose import may have failed (the module-level
\* names bound to None); tcp and udp come from one import.
OptionalLibs == {"cli", "graphql", "mcp", "socket", "text"}

LibOf(kind) == IF kind \in {"tcp", "udp"} THEN "socket" ELSE kind

HttpKinds == {"http", "sse", "streamable_http"}

\* Fields passed through by _build_http_base_kwargs when present.
CommonOptional == {"auth", "headers", "body_field", "header_fields"}

\* Kind-specific pass-through fields of the HTTP family.
KindOptional(kind) ==
    CASE kind = "http" -> {"auth_tools"}
      [] kind = "sse" -> {"event_type", "reconnect", "retry_timeout"}
      [] kind = "streamable_http" -> {"chunk_size", "timeout"}
      [] OTHER -> {}

\* Fields a non-HTTP kind reads with template_config[...], in the order the
\* constructor call evaluates them.
RequiredFields(kind) ==
    CASE kind \in HttpKinds -> <<"name", "url">>
      [] kind \in {"cli", "mcp"} -> <<"name", "command">>
      [] kind = "graphql" -> <<"name", "url">>
      [] kind \in {"tcp", "udp"} -> <<"name", "host", "port">>
      [] kind = "text" -> <<"name", "file_path">>
      [] OTHER -> << >>

TemplateClass(kind) ==
    CASE kind = "http" -> "HttpCallTemplate"
      [] kind = "sse" -> "SseCallTemplate"
      [] kind = "streamable_http" -> "StreamableHttpCallTemplate"
      [] kind = "cli" -> "CliCallTemplate"
      [] kind = "graphql" -> "GqlCallTemplate"
      [] kind = "mcp" -> "McpCallTemplate"
      [] kind = "tcp" -> "TcpCallTemplate"
      [] kind = "udp" -> "UdpCallTemplate"
      [] kind = "text" -> "TextCallTemplate"
      [] OTHER -> "None"

\* The branch of the if/elif chain an entry takes: recognized kinds whose
\* template class is available build a template, everything else is skipped.
Recognized(kind, avail) ==
    \/ kind \in HttpKinds
    \/ kind \in {"cli", "graphql", "mcp", "tcp", "udp", "text"} /\ LibOf(kind) \in avail

\* The first required field the entry lacks, as a sequence of at most one.
FirstMissing(entry, kind) ==
    LET req == RequiredFields(kind)
        miss == {i \in 1..Len(req) : req[i] \notin DOMAIN entry}
    IN IF miss = {} THEN << >>
       ELSE <<req[CHOOSE i \in miss : \A j \in miss : i <= j]>>

\* _build_http_base_kwargs(template_config, call_template_type)
BuildHttpBaseKwargs(template_config, call_template_type) ==
    LET present == CommonOptional \cap DOMAIN template_config
        keys == {"name", "call_template_type", "url", "http_method", "content_type"} \cup present
    IN [k \in keys |->
          CASE k = "call_template_type" -> call_template_type
            [] k = "http_method" -> Get(template_config, "http_method", "GET")
            [] k = "content_type" -> Get(template_config, "content_type", "application/json")
            [] OTHER -> template_config[k]]

\* Mutant of TemplateKwargs: every kind-specific field of the HTTP family
\* is passed through, whatever the kind of the entry.
TemplateKwargsPassesAll(template_config, kind) ==
    IF kind \in HttpKinds
    THEN LET base == BuildHttpBaseKwargs(template_config, kind)
             extra == UNION {KindOptional(k) : k \in HttpKinds} \cap DOMAIN template_config
         IN [k \in DOMAIN base \cup extra |->
               IF k \in DOMAIN base THEN base[k] ELSE template_config[k]]
    ELSE LET req == RequiredFields(kind)
             keys == {req[i] : i \in 1..Len(req)} \cup {"call_template_type"}
         IN [k \in keys |-> IF k = "call_template_type" THEN kind ELSE template_config[k]]

\* The keyword arguments one recognized entry hands to its template class.
TemplateKwargs(template_config, kind) ==
    IF kind \in HttpKinds
    THEN LET base == BuildHttpBaseKwargs(template_config, kind)
             extra == KindOptional(kind) \cap DOMAIN template_config
         IN [k \in DOMAIN base \cup extra |->
               IF k \in DOMAIN base THEN base[k] ELSE template_config[k]]
    ELSE LET req == RequiredFields(kind)
             keys == {req[i] : i \in 1..Len(req)} \cup {"call_template_type"}
         IN [k \in keys |-> IF k = "call_template_type" THEN kind ELSE template_config[k]]

CallTemplate(template_config, kind) == [cls |-> TemplateClass(kind), kwargs |-> TemplateKwargs(template_config, kind)]

\* Mutant of BuildFrom: the loop ends at the first entry it skips.
RECURSIVE BuildFromStopsAtSkipped(_, _, _, _)
BuildFromStopsAtSkipped(entries, i, avail, acc) ==
    IF i > Len(entries) THEN [ok |-> TRUE, templates |-> acc]
    ELSE LET template_config == entries[i]
             kind == Get(template_config, "call_template_type", "None")
         IN IF ~Recognized(kind, avail) THEN [ok |-> TRUE, templates |-> acc]
            ELSE IF FirstMissing(template_config, kind) # << >>
                 THEN [ok |-> FALSE, exc |-> KeyError(FirstMissing(template_config, kind)[1])]
                 ELSE BuildFromStopsAtSkipped(entries, i + 1, avail, Append(acc, CallTemplate(template_config, kind)))

\* Mutant of BuildFrom: an entry lacking a required field is skipped.
RECURSIVE BuildFromSkipsMalformed(_, _, _, _)
BuildFromSkipsMalformed(entries, i, avail, acc) ==
    IF i > Len(entries) THEN [ok |-> TRUE, templates |-> acc]
    ELSE LET template_config == entries[i]
             kind == Get(template_config, "call_template_type", "None")
         IN IF ~Recognized(kind, avail) \/ FirstMissing(template_config, kind) # << >>
            THEN BuildFromSkipsMalformed(entries, i + 1, avail, acc)
            ELSE BuildFromSkipsMalformed(entries, i + 1, avail, Append(acc, CallTemplate(template_config, kind)))

\* The loop over config.get("manual_call_templates", []): the templates
\* built so far, or the KeyError of the first entry lacking a required field.
RECURSIVE BuildFrom(_, _, _, _)
BuildFrom(entries, i, avail, acc) ==
    IF i > Len(entries) THEN [ok |-> TRUE, templates |-> acc]
    ELSE LET template_config == entries[i]
             kind == Get(template_config, "call_template_type", "None")
         IN IF ~Recognized(kind, avail) THEN BuildFrom(entries, i + 1, avail, acc)
            ELSE IF FirstMissing(template_config, kind) # << >>
                 THEN [ok |-> FALSE, exc |-> KeyError(FirstMissing(template_config, kind)[1])]
                 ELSE BuildFrom(entries, i + 1, avail, Append(acc, CallTemplate(template_config, kind)))

BuildCallTemplates(cfg, avail) == BuildFrom(Get(cfg, "manual_call_templates", << >>), 1, avail, << >>)

\* Sample configuration entries.
HttpEntry == [name |-> "test_api", call_template_type |-> "http", url |-> "https://api.test.com/utcp", http_method |-> "GET"]

HttpNoUrl == [name |-> "broken", call_template_type |-> "http"]

SseEntry == [name |-> "events", call_template_type |-> "sse", url |-> "https://api.test.com/sse", event_type |-> "message", chunk_size |-> "1024"]

CliEntry == [name |-> "cli1", call_template_type |-> "cli", command |-> "echo hello"]

UnknownEntry == [name |-> "mystery", call_template_type |-> "carrier_pigeon"]

Config(entries) == [manual_call_templates |-> entries]

\* The configurations an adapter is constructed with (config or {}).
Configs ==
    { [k \in {} |-> << >>],
      Config(<<UnknownEntry, CliEntry, SseEntry>>),
      Config(<<HttpEntry, HttpNoUrl>>) }

\* The sets of optional integrations an environment may have installed.
Environments == {{}, OptionalLibs}

\* ------------------------------------------------- the external client
\* What an awaited call on the external collaborator does: return or raise.
Returned(v) == [ok |-> TRUE, value |-> v]

Raised(e) == [ok |-> FALSE, exc |-> e]

\* UtcpClientConfig(manual_call_templates=call_templates)
UtcpClientConfig(call_templates) == [tag |-> "UtcpClientConfig", manual_call_templates |-> call_templates]

\* Results a tool invocation may produce (-> Any): a string, a mapping, a
\* mapping holding a value json cannot encode, a list, nothing.
StrResult == [tag |-> "str", py |-> "success"]

DictResult == [tag |-> "dict", py |-> "{'result': 'success'}"]

BytesDictResult == [tag |-> "dict", py |-> "{'data': b'\\x00'}"]

ResultValues == {StrResult, DictResult, BytesDictResult, None}

\* Argument mappings handed to a tool.
EmptyArgs == [k \in {} |-> "v"]

Args1 == [param1 |-> "value1"]

Arguments == {EmptyArgs, Args1}

Queries == {"", "weather"}

\* max_results: None (unset) or an integer.
MaxResults == {None, [tag |-> "int", n |-> 0], [tag |-> "int", n |-> 5]}

\* A client object the factory creates is distinct from the one the adapter
\* still holds; which of the objects not held it is makes no difference.
FreshClient(held) == IF held = Client(1) THEN Client(2) ELSE Client(1)

CreateResponses(held) == {Returned(FreshClient(held))} \cup {Raised(e) : e \in ExternalErrors}

SearchResponses == {Returned(ds) : ds \in SeqUpTo(Descriptors, MaxTools)} \cup {Raised(e) : e \in ExternalErrors}

CallResponses == {Returned(r) : r \in ResultValues} \cup {Raised(e) : e \in ExternalErrors}

\* Records of the calls an operation made on the external collaborator.
CreateCall(cfg, resp) == [op |-> "create", config |-> cfg, response |-> resp]

SearchCall(on, query, limit, resp) == [op |-> "search_tools", on |-> on, query |-> query, limit |-> limit, response |-> resp]

InvokeCall(on, tool_name, tool_args, resp) == [op |-> "call_tool", on |-> on, tool_name |-> tool_name, tool_args |-> tool_args, response |-> resp]

\* ------------------------------------------------------------ the adapter
\* What an operation did: the adapter's fields afterwards, whether it
\* raised, what it returned or raised, and the client calls it made.
Outcome(client, cache, raised, value, error, calls) ==
    [client |-> client, cache |-> cache, raised |-> raised, value |-> value, error |-> error, calls |-> calls]

ListOf(items) == [tag |-> "list", items |-> items]

\* Mutant of LoadTools: a failed discovery query is not caught.
LoadToolsPropagates(client, cache, sr) ==
    IF ~Truthy(client) THEN [cache |-> cache, raised |-> FALSE, error |-> None, calls |-> << >>]
    ELSE LET calls == <<SearchCall(client, "", DiscoveryLimit, sr)>>
         IN IF sr.ok
            THEN [cache |-> WrapAll(sr.value, Self), raised |-> FALSE, error |-> None, calls |-> calls]
            ELSE [cache |-> cache, raised |-> TRUE, error |-> sr.exc, calls |-> calls]

\* Mutant of LoadTools: the descriptors found are added to the cache.
LoadToolsAppends(client, cache, sr) ==
    IF ~Truthy(client) THEN [cache |-> cache, raised |-> FALSE, error |-> None, calls |-> << >>]
    ELSE LET calls == <<SearchCall(client, "", DiscoveryLimit, sr)>>
         IN IF sr.ok
            THEN [cache |-> cache \o WrapAll(sr.value, Self), raised |-> FALSE, error |-> None, calls |-> calls]
            ELSE [cache |-> << >>, raised |-> FALSE, error |-> None, calls |-> calls]

\* _load_tools(): sr is what the client's search_tools does when awaited.
LoadTools(client, cache, sr) ==
    IF ~Truthy(client) THEN [cache |-> cache, raised |-> FALSE, error |-> None, calls |-> << >>]
    ELSE LET calls == <<SearchCall(client, "", DiscoveryLimit, sr)>>
         IN IF sr.ok
            THEN [cache |-> WrapAll(sr.value, Self), raised |-> FALSE, error |-> None, calls |-> calls]
            ELSE [cache |-> << >>, raised |-> FALSE, error |-> None, calls |-> calls]

\* except Exception as e: raise UtcpToolAdapterError(f"...failed: {e}") from e
InitFailed(e) == UtcpToolAdapterError(<<InitFailedPrefix>> \o Str(e), e)

\* start(): cr is what UtcpClient.create does, sr what the discovery query does.
Start(cfg, avail, client, cache, cr, sr) ==
    LET built == BuildCallTemplates(cfg, avail)
    IN IF ~built.ok
       THEN Outcome(client, cache, TRUE, None, InitFailed(built.exc), << >>)
       ELSE LET created == <<CreateCall(UtcpClientConfig(built.templates), cr)>>
            IN IF ~cr.ok
               THEN Outcome(client, cache, TRUE, None, InitFailed(cr.exc), created)
               ELSE LET loaded == LoadTools(cr.value, cache, sr)
                    IN IF loaded.raised
                       THEN Outcome(cr.value, loaded.cache, TRUE, None, InitFailed(loaded.error), created \o loaded.calls)
                       ELSE Outcome(cr.value, loaded.cache, FALSE, Self, None, created \o loaded.calls)

\* Mutant of Stop: the cache is not cleared.
StopKeepsCache(client, cache) ==
    IF Truthy(client)
    THEN Outcome(None, cache, FALSE, None, None, << >>)
    ELSE Outcome(client, cache, FALSE, None, None, << >>)

\* stop()
Stop(client, cache) ==
    IF Truthy(client)
    THEN Outcome(None, << >>, FALSE, None, None, << >>)
    ELSE Outcome(client, cache, FALSE, None, None, << >>)

\* list_tools(): a copy of the cache.
ListTools(client, cache) == Outcome(client, cache, FALSE, ListOf(cache), None, << >>)

\* to_strands_tools(): a copy of the cache.
ToStrandsTools(client, cache) == Outcome(client, cache, FALSE, ListOf(cache), None, << >>)

\* Mutant of ListCopy: the cache itself is handed out.
ListCopyAliased(cache) == [same |-> TRUE, items |-> cache]

\* self._tools_cache.copy(): a new list object holding the same items.
\* same: whether the object is the adapter's own cache list.
ListCopy(cache) == [same |-> FALSE, items |-> cache]

ExecFailed(e) == UtcpToolAdapterError(<<ExecFailedPrefix>> \o Str(e), e)

NotInitialized == UtcpToolAdapterError(<<NotInitializedMsg>>, None)

\* Mutant of CallTool: the arguments are not handed on.
CallToolDropsArgs(client, cache, tool_name, arguments, resp) ==
    IF ~Truthy(client)
    THEN Outcome(client, cache, TRUE, None, NotInitialized, << >>)
    ELSE LET calls == <<InvokeCall(client, tool_name, EmptyArgs, resp)>>
         IN IF resp.ok
            THEN Outcome(client, cache, FALSE, resp.value, None, calls)
            ELSE Outcome(client, cache, TRUE, None, ExecFailed(resp.exc), calls)

\* Mutant of CallTool: a failed invocation drops the client.
CallToolResetsOnError(client, cache, tool_name, arguments, resp) ==
    IF ~Truthy(client)
    THEN Outcome(client, cache, TRUE, None, NotInitialized, << >>)
    ELSE LET calls == <<InvokeCall(client, tool_name, arguments, resp)>>
         IN IF resp.ok
            THEN Outcome(client, cache, FALSE, resp.value, None, calls)
            ELSE Outcome(None, << >>, TRUE, None, ExecFailed(resp.exc), calls)

\* Mutant of CallTool: a failed invocation is tried a second time.
CallToolRetries(client, cache, tool_name, arguments, resp) ==
    IF ~Truthy(client)
    THEN Outcome(client, cache, TRUE, None, NotInitialized, << >>)
    ELSE LET call == InvokeCall(client, tool_name, arguments, resp)
         IN IF resp.ok
            THEN Outcome(client, cache, FALSE, resp.value, None, <<call>>)
            ELSE Outcome(client, cache, TRUE, None, ExecFailed(resp.exc), <<call, call>>)

\* call_tool(tool_name, arguments): resp is what the client's call_tool does.
CallTool(client, cache, tool_name, arguments, resp) ==
    IF ~Truthy(client)
    THEN Outcome(client, cache, TRUE, None, NotInitialized, << >>)
    ELSE LET calls == <<InvokeCall(client, tool_name, arguments, resp)>>
         IN IF resp.ok
            THEN Outcome(client, cache, FALSE, resp.value, None, calls)
            ELSE Outcome(client, cache, TRUE, None, ExecFailed(resp.exc), calls)

\* limit = max_results or 100
SearchLimit(max_results) ==
    IF max_results = None \/ max_results.n = 0 THEN DefaultSearchLimit ELSE max_results.n

\* Mutant of SearchTools: the client check is missing, so a search on no
\* client fails inside the try block and yields an empty list.
SearchToolsUnguarded(client, cache, query, max_results, resp) ==
    IF ~Truthy(client)
    THEN Outcome(client, cache, FALSE, ListOf(<< >>), None, << >>)
    ELSE LET calls == <<SearchCall(client, query, SearchLimit(max_results), resp)>>
         IN IF resp.ok
            THEN Outcome(client, cache, FALSE, ListOf(WrapAll(resp.value, Self)), None, calls)
            ELSE Outcome(client, cache, FALSE, ListOf(<< >>), None, calls)

\* Mutant of SearchTools: a failed search is wrapped and raised, as in call_tool.
SearchToolsPropagates(client, cache, query, max_results, resp) ==
    IF ~Truthy(client)
    THEN Outcome(client, cache, TRUE, None, NotInitialized, << >>)
    ELSE LET calls == <<SearchCall(client, query, SearchLimit(max_results), resp)>>
         IN IF resp.ok
            THEN Outcome(client, cache, FALSE, ListOf(WrapAll(resp.value, Self)), None, calls)
            ELSE Outcome(client, cache, TRUE, None, ExecFailed(resp.exc), calls)

\* Mutant of SearchTools: the tools found are kept in the cache.
SearchToolsCaches(client, cache, query, max_results, resp) ==
    IF ~Truthy(client)
    THEN Outcome(client, cache, TRUE, None, NotInitialized, << >>)
    ELSE LET calls == <<SearchCall(client, query, SearchLimit(max_results), resp)>>
         IN IF resp.ok
            THEN Outcome(client, WrapAll(resp.value, Self), FALSE, ListOf(WrapAll(resp.value, Self)), None, calls)
            ELSE Outcome(client, cache, FALSE, ListOf(<< >>), None, calls)

\* search_tools(query, max_results): resp is what the client's search does.
SearchTools(client, cache, query, max_results, resp) ==
    IF ~Truthy(client)
    THEN Outcome(client, cache, TRUE, None, NotInitialized, << >>)
    ELSE LET calls == <<SearchCall(client, query, SearchLimit(max_results), resp)>>
         IN IF resp.ok
            THEN Outcome(client, cache, FALSE, ListOf(WrapAll(resp.value, Self)), None, calls)
            ELSE Outcome(client, cache, FALSE, ListOf(<< >>), None, calls)

\* ------------------------------------------------------ name sanitization
\* A text is read character by character as the sequence of its characters;
\* a character is a one-character string, except the non-ASCII letter
\* e-acute, written "U+00E9".
Lower == {"a", "b", "c", "d", "e", "f", "g", "h", "i", "j", "k", "l", "m", "n", "o", "p", "q", "r", "s", "t", "u", "v", "w", "x", "y", "z"}

Upper == {"A", "B", "C", "D", "E", "F", "G", "H", "I", "J", "K", "L", "M", "N", "O", "P", "Q", "R", "S", "T", "U", "V", "W", "X", "Y", "Z"}

Digits == {"0", "1", "2", "3", "4", "5", "6", "7", "8", "9"}

\* str.isalnum() of one character: true of the ASCII letters and digits and
\* of every other Unicode letter or digit.
IsAlnum(char) == char \in Lower \cup Upper \cup Digits \cup {"U+00E9"}

MaxNameLength == 64

KeptPrefix == 55

ShortUuidLength == 8

\* What str(uuid.uuid4()) may produce: 32 hex digits in five groups.
Uuid4s ==
    { <<"0", "1", "2", "3", "a", "b", "c", "d", "-", "4", "e", "5", "f", "-", "4", "a", "6", "b", "-", "8", "c", "7", "d", "-", "0", "1", "2", "3", "4", "5", "6", "7", "8", "9", "a", "b">>,
      <<"9", "f", "8", "e", "7", "d", "6", "c", "-", "5", "b", "4", "a", "-", "4", "3", "9", "2", "-", "8", "d", "1", "e", "-", "f", "f", "e", "e", "d", "d", "c", "c", "b", "b", "a", "a">> }

\* str(uuid4).replace('-', '')[:8]
ShortUuid(uuid4) == SubSeq(SelectSeq(uuid4, LAMBDA c : c # "-"), 1, ShortUuidLength)

\* Mutant of FormatToolNameForBedrock: invalid characters are dropped rather
\* than replaced.
FormatDropsInvalid(tool_name, uuid4) ==
    LET kept == SelectSeq(tool_name, LAMBDA c : c = "." \/ IsAlnum(c) \/ c \in {"_", "-"})
        bedrock_name == [i \in 1..Len(kept) |-> IF kept[i] = "." THEN "_" ELSE kept[i]]
    IN IF Len(bedrock_name) > MaxNameLength
       THEN SubSeq(bedrock_name, 1, KeptPrefix) \o <<"_">> \o ShortUuid(uuid4)
       ELSE bedrock_name

\* Mutant of FormatToolNameForBedrock: the truncation keeps one character more.
FormatKeepsTooMuch(tool_name, uuid4) ==
    LET replaced == [i \in 1..Len(tool_name) |-> IF tool_name[i] = "." THEN "_" ELSE tool_name[i]]
        bedrock_name == [i \in 1..Len(replaced) |->
                            IF IsAlnum(replaced[i]) \/ replaced[i] \in {"_", "-"} THEN replaced[i] ELSE "_"]
    IN IF Len(bedrock_name) > MaxNameLength
       THEN SubSeq(bedrock_name, 1, KeptPrefix + 1) \o <<"_">> \o ShortUuid(uuid4)
       ELSE bedrock_name

\* format_tool_name_for_bedrock(tool_name); uuid4 is what str(uuid.uuid4())
\* gives if the name has to be truncated.
FormatToolNameForBedrock(tool_name, uuid4) ==
    LET replaced == [i \in 1..Len(tool_name) |-> IF tool_name[i] = "." THEN "_" ELSE tool_name[i]]
        bedrock_name == [i \in 1..Len(replaced) |->
                            IF IsAlnum(replaced[i]) \/ replaced[i] \in {"_", "-"} THEN replaced[i] ELSE "_"]
    IN IF Len(bedrock_name) > MaxNameLength
       THEN SubSeq(bedrock_name, 1, KeptPrefix) \o <<"_">> \o ShortUuid(uuid4)
       ELSE bedrock_name

\* An external tool name longer than the limit.
LongName == "weather.service.v2.forecast.get_extended_hourly_forecast_by_location"

\* The characters of the tool names used here.
Chars(name) ==
    CASE name = "a.b" -> <<"a", ".", "b">>
      [] name = "a_b" -> <<"a", "_", "b">>
      [] name = "missing" -> <<"m", "i", "s", "s", "i", "n", "g">>
      [] name = LongName ->
            <<"w", "e", "a", "t", "h", "e", "r", ".", "s", "e", "r", "v", "i", "c", "e", ".", "v", "2", ".", "f", "o", "r", "e", "c", "a", "s", "t", ".", "g", "e", "t", "_", "e", "x", "t", "e", "n", "d", "e", "d", "_", "h", "o", "u", "r", "l", "y", "_", "f", "o", "r", "e", "c", "a", "s", "t", "_", "b", "y", "_", "l", "o", "c", "a", "t", "i", "o", "n">>

\* ------------------------------------------------------ the wrapped tool
TypeError(text) == [type |-> "TypeError", msg |-> <<text>>, cause |-> None]

\* str(result)
PyStr(result) == IF result = None THEN "None" ELSE result.py

\* json.dumps(result, indent=2) of a mapping: its text, or the TypeError
\* json raises on a value it cannot encode.
JsonDumps(result) ==
    CASE result = DictResult -> Returned(<<"{\n  \"result\": \"success\"\n}">>)
      [] result = BytesDictResult -> Raised(TypeError("Object of type bytes is not JSON serializable"))
      [] OTHER -> Raised(TypeError("Object is not JSON serializable"))

\* The isinstance chain of stream(): str, dict, anything else.
FormatContent(result) ==
    IF result.tag = "str" THEN Returned(<<result.py>>)
    ELSE IF result.tag = "dict" THEN JsonDumps(result)
    ELSE Returned(<<PyStr(result)>>)

\* The requests the host framework hands to stream().
ToolUses ==
    { [k \in {} |-> "v"],
      [toolUseId |-> "tu-1", input |-> Args1] }

ToolUseId(tool_use) == Get(tool_use, "toolUseId", "unknown")

SuccessEnvelope(tool_use, content) ==
    [toolUseId |-> ToolUseId(tool_use), content |-> <<[text |-> content]>>, status |-> "success"]

ErrorEnvelope(tool_use, e) ==
    [toolUseId |-> ToolUseId(tool_use), content |-> <<[text |-> <<"Error: ">> \o Str(e)]>>, status |-> "error"]

EventsOf(items) == [tag |-> "events", items |-> items]

\* UtcpAgentTool.call(**kwargs)
ToolCall(tool, kwargs, client, cache, resp) == CallTool(client, cache, tool.utcp_tool.name, kwargs, resp)

\* Mutant of Stream: an exception of call_tool leaves the generator.
StreamReraises(tool, tool_use, client, cache, resp) ==
    LET r == CallTool(client, cache, tool.utcp_tool.name, Get(tool_use, "input", EmptyArgs), resp)
        content == FormatContent(r.value)
    IN IF r.raised THEN Outcome(r.client, r.cache, TRUE, EventsOf(<< >>), r.error, r.calls)
       ELSE IF content.ok
            THEN Outcome(r.client, r.cache, FALSE, EventsOf(<<SuccessEnvelope(tool_use, content.value)>>), None, r.calls)
            ELSE Outcome(r.client, r.cache, FALSE, EventsOf(<<ErrorEnvelope(tool_use, content.exc)>>), None, r.calls)

\* UtcpAgentTool.stream(tool_use, invocation_state): the events the returned
\* generator yields when it is run to exhaustion.
Stream(tool, tool_use, client, cache, resp) ==
    LET r == CallTool(client, cache, tool.utcp_tool.name, Get(tool_use, "input", EmptyArgs), resp)
        content == FormatContent(r.value)
        events ==
            IF r.raised THEN <<ErrorEnvelope(tool_use, r.error)>>
            ELSE IF content.ok THEN <<SuccessEnvelope(tool_use, content.value)>>
            ELSE <<ErrorEnvelope(tool_use, content.exc)>>
    IN Outcome(r.client, r.cache, FALSE, EventsOf(events), None, r.calls)

\* Wrapped tools a caller may hold: built directly or taken from a listing.
AgentTools == {UtcpAgentTool(d, Self) : d \in Descriptors}

\* ------------------------------------------------------------ scoped use
\* __aenter__: return await self.start()
AEnter(cfg, avail, client, cache, cr, sr) == Start(cfg, avail, client, cache, cr, sr)

\* Mutant of AExit: the adapter is not stopped.
AExitSkipsStop(client, cache, exc_val) == Outcome(client, cache, FALSE, None, None, << >>)

\* __aexit__(exc_type, exc_val, exc_tb): await self.stop(); returns None.
AExit(client, cache, exc_val) == Stop(client, cache)

\* What the body of an `async with` block ends with: None for a normal
\* exit, otherwise the exception it raised.
BodyError == [type |-> "ValueError", msg |-> <<"body failed">>, cause |-> None]

BodyExits == {None, BodyError}

\* ------------------------------------------------------------------ state
VARIABLES
    config,            \* self._config
    optional_imports,  \* the optional template classes that were importable
    utcp_client,       \* self._utcp_client
    tools_cache,       \* self._tools_cache
    scope,             \* "outside" or "body": position in an `async with` block
    last,              \* the operation that ran last and what it did
    held,              \* the list object a caller kept from list_tools()
    pure,              \* a pure function under study: its input and its result
    start_task         \* a start() in flight: the await it is suspended at

vars == <<config, optional_imports, utcp_client, tools_cache, scope, last, held, pure, start_task>>

\* No start() is suspended.
NoTask == [at |-> "none"]

\* before: the client handle and the cache as the operation found them.
Happened(op, args, before, r) ==
    [op |-> op, args |-> args, before |-> before,
     raised |-> r.raised, value |-> r.value, error |-> r.error, calls |-> r.calls]

Fields(client, cache) == [client |-> client, cache |-> cache]

\* The adapter takes the fields the operation left and remembers what it did.
Apply(op, args, r) ==
    /\ utcp_client' = r.client
    /\ tools_cache' = r.cache
    /\ last' = Happened(op, args, Fields(utcp_client, tools_cache), r)
    /\ UNCHANGED <<config, optional_imports, pure, start_task>>

\* __init__(config): config or {}, no client, empty cache.
Init ==
    /\ config \in Configs
    /\ optional_imports \in Environments
    /\ utcp_client = None
    /\ tools_cache = << >>
    /\ scope = "outside"
    /\ last = Happened("__init__", None, Fields(None, << >>), Outcome(None, << >>, FALSE, None, None, << >>))
    /\ held = None
    /\ start_task = NoTask
    /\ pure = None

DoStart ==
    \E cr \in CreateResponses(utcp_client), sr \in SearchResponses :
        /\ Apply("start", None, Start(config, optional_imports, utcp_client, tools_cache, cr, sr))
        /\ UNCHANGED <<scope, held>>

DoStop ==
    /\ Apply("stop", None, Stop(utcp_client, tools_cache))
    /\ UNCHANGED <<scope, held>>

DoListTools ==
    /\ Apply("list_tools", None, ListTools(utcp_client, tools_cache))
    /\ UNCHANGED <<scope, held>>

DoCallTool ==
    \E n \in ToolNames, a \in Arguments, resp \in CallResponses :
        /\ Apply("call_tool", [tool_name |-> n, arguments |-> a],
                 CallTool(utcp_client, tools_cache, n, a, resp))
        /\ UNCHANGED <<scope, held>>

DoSearchTools ==
    \E q \in Queries, m \in MaxResults, resp \in SearchResponses :
        /\ Apply("search_tools", [query |-> q, max_results |-> m],
                 SearchTools(utcp_client, tools_cache, q, m, resp))
        /\ UNCHANGED <<scope, held>>

DoToolCall ==
    \E t \in AgentTools, a \in Arguments, resp \in CallResponses :
        /\ Apply("tool.call", [tool |-> t, kwargs |-> a],
                 ToolCall(t, a, utcp_client, tools_cache, resp))
        /\ UNCHANGED <<scope, held>>

DoToolStream ==
    \E t \in AgentTools, u \in ToolUses, resp \in CallResponses :
        /\ Apply("tool.stream", [tool |-> t, tool_use |-> u],
                 Stream(t, u, utcp_client, tools_cache, resp))
        /\ UNCHANGED <<scope, held>>

\* `async with adapter:` entry. The body is entered only if __aenter__ returns.
ScopeEnter ==
    /\ scope = "outside"
    /\ \E cr \in CreateResponses(utcp_client), sr \in SearchResponses :
        LET r == AEnter(config, optional_imports, utcp_client, tools_cache, cr, sr)
        IN /\ Apply("__aenter__", None, r)
           /\ scope' = IF r.raised THEN "outside" ELSE "body"
           /\ UNCHANGED held

\* Leaving the body, normally or by an exception: __aexit__ runs, and the
\* body's exception propagates unless __aexit__ returns a true value.
ScopeExit ==
    /\ scope = "body"
    /\ \E exc_val \in BodyExits :
        LET r == AExit(utcp_client, tools_cache, exc_val)
            propagates == exc_val # None /\ r.value = None
        IN /\ Apply("__aexit__", [exc_val |-> exc_val],
                    IF r.raised THEN r
                    ELSE Outcome(r.client, r.cache, propagates, r.value, IF propagates THEN exc_val ELSE None, r.calls))
           /\ scope' = "outside"
           /\ UNCHANGED held

\* The adapter and its wrapped tools, used one operation at a time.
Next ==
    \/ DoStart
    \/ DoStop
    \/ DoListTools
    \/ DoCallTool
    \/ DoSearchTools
    \/ DoToolCall
    \/ DoToolStream

Spec == Init /\ [][Next]_vars

\* The adapter used as a scoped resource; the body may start, stop and
\* invoke as it likes.
NextScoped ==
    \/ ScopeEnter
    \/ ScopeExit
    \/ DoStart
    \/ DoStop
    \/ DoCallTool

ScopedSpec == Init /\ [][NextScoped]_vars

\* ----------------------------------------------------------- listings
\* list_tools() / to_strands_tools() whose result the caller keeps.
DoListToolsKept ==
    /\ Apply("list_tools", None, ListTools(utcp_client, tools_cache))
    /\ held' = ListCopy(tools_cache)
    /\ UNCHANGED scope

DoToStrandsToolsKept ==
    /\ Apply("to_strands_tools", None, ToStrandsTools(utcp_client, tools_cache))
    /\ held' = ListCopy(tools_cache)
    /\ UNCHANGED scope

\* What a caller may do to a list it holds: clear it, drop its last item,
\* append a tool.
Mutations(items) ==
    {<< >>}
    \cup (IF items = << >> THEN {} ELSE {SubSeq(items, 1, Len(items) - 1)})
    \cup (IF Len(items) > MaxTools THEN {} ELSE {Append(items, t) : t \in AgentTools})

\* The caller mutates the list it holds; the cache changes with it only if
\* the two are one object.
DoMutateHeld ==
    /\ held # None
    /\ \E items \in Mutations(held.items) :
          /\ held' = [held EXCEPT !.items = items]
          /\ tools_cache' = IF held.same THEN items ELSE tools_cache
          /\ last' = Happened("mutate_returned", [items |-> items], Fields(utcp_client, tools_cache),
                              Outcome(utcp_client, tools_cache', FALSE, None, None, << >>))
    /\ UNCHANGED <<config, optional_imports, utcp_client, scope, pure, start_task>>

NextListing ==
    \/ DoStart
    \/ DoStop
    \/ DoListToolsKept
    \/ DoToStrandsToolsKept
    \/ DoMutateHeld

ListingSpec == Init /\ [][NextListing]_vars

\* ------------------------------------------------------------- lookup
\* UtcpAgentTool.name / tool_name: computed anew at every read; uuid4 is
\* what uuid.uuid4() gives at that read.
ToolName(tool, uuid4) == FormatToolNameForBedrock(Chars(tool.utcp_tool.name), uuid4)

\* The loop of get_tool over the cache from position i on; uuids[i] is the
\* uuid4 drawn when the name of the tool at position i is read.
RECURSIVE Scan(_, _, _, _)
Scan(cache, i, name, uuids) ==
    IF i > Len(cache) THEN None
    ELSE IF ToolName(cache[i], uuids[i]) = name \/ Chars(cache[i].utcp_tool.name) = name THEN cache[i]
    ELSE Scan(cache, i + 1, name, uuids)

\* Mutant of GetTool: only the sanitized name is compared.
GetToolBySanitizedOnly(client, cache, name, uuids) ==
    LET found == Scan(cache, 1, name, uuids)
    IN  Outcome(client, cache, FALSE,
                IF found # None /\ Chars(found.utcp_tool.name) # name THEN found ELSE None,
                None, << >>)

\* get_tool(name)
GetTool(client, cache, name, uuids) == Outcome(client, cache, FALSE, Scan(cache, 1, name, uuids), None, << >>)

\* Descriptors the client returns here: short names and one too long.
LookupDescriptors == {UTCPTool(n) : n \in {"a.b", "a_b", LongName}}

LookupSearchResponses ==
    {Returned(ds) : ds \in SeqUpTo(LookupDescriptors, MaxTools)} \cup {Raised(ConnectionFailed)}

\* Names a caller looks up: external names, sanitized names, a sanitized
\* long name as one read of it gave it, and a name no tool has.
LookupNames ==
    {Chars("a.b"), Chars("a_b"), Chars(LongName), Chars("missing"),
     FormatToolNameForBedrock(Chars(LongName), CHOOSE u \in Uuid4s : TRUE)}

DoStartLookup ==
    \E cr \in {Returned(FreshClient(utcp_client)), Raised(ConnectionFailed)}, sr \in LookupSearchResponses :
        /\ Apply("start", None, Start(config, optional_imports, utcp_client, tools_cache, cr, sr))
        /\ UNCHANGED <<scope, held>>

DoGetTool ==
    \E name \in LookupNames, uuids \in [1..Len(tools_cache) -> Uuid4s] :
        /\ Apply("get_tool", [name |-> name, uuids |-> uuids],
                 GetTool(utcp_client, tools_cache, name, uuids))
        /\ UNCHANGED <<scope, held>>

NextLookup ==
    \/ DoStartLookup
    \/ DoStop
    \/ DoGetTool

\* An adapter constructed with the one HTTP entry of the test fixture.
LookupInit ==
    /\ config = Config(<<HttpEntry>>)
    /\ optional_imports = OptionalLibs
    /\ utcp_client = None
    /\ tools_cache = << >>
    /\ scope = "outside"
    /\ last = Happened("__init__", None, Fields(None, << >>), Outcome(None, << >>, FALSE, None, None, << >>))
    /\ held = None
    /\ start_task = NoTask
    /\ pure = None

LookupSpec == LookupInit /\ [][NextLookup]_vars

\* ------------------------------------------------------ every operation
DoToStrandsTools ==
    /\ Apply("to_strands_tools", None, ToStrandsTools(utcp_client, tools_cache))
    /\ UNCHANGED <<scope, held>>

\* An adapter whose configuration builds, or one whose second entry lacks
\* its url.
AllInit ==
    /\ config \in {Config(<<HttpEntry>>), Config(<<HttpEntry, HttpNoUrl>>)}
    /\ optional_imports = OptionalLibs
    /\ utcp_client = None
    /\ tools_cache = << >>
    /\ scope = "outside"
    /\ last = Happened("__init__", None, Fields(None, << >>), Outcome(None, << >>, FALSE, None, None, << >>))
    /\ held = None
    /\ start_task = NoTask
    /\ pure = None

\* Every public operation of the adapter, one at a time and in any order.
NextAll ==
    \/ DoStart
    \/ DoStop
    \/ DoListTools
    \/ DoToStrandsTools
    \/ DoGetTool
    \/ DoCallTool
    \/ DoSearchTools

AllSpec == AllInit /\ [][NextAll]_vars

\* ------------------------------------------------- overlapping start/stop
\* start() is a coroutine: it suspends at `await UtcpClient.create(...)` and,
\* inside _load_tools, at `await self._utcp_client.search_tools(...)`, and
\* other coroutines of the caller run on the same adapter meanwhile.
\* overlapped: a stop() ran while this start() was suspended.
Suspended == start_task.at \in {"create", "search_tools"}

\* start() is called and runs to its first await: the templates are built,
\* and UtcpClient.create is awaited unless building them raised.
StartCalled ==
    /\ ~Suspended
    /\ LET built == BuildCallTemplates(config, optional_imports)
           before == Fields(utcp_client, tools_cache)
       IN IF ~built.ok
          THEN /\ last' = Happened("start", None, before,
                                   Outcome(utcp_client, tools_cache, TRUE, None, InitFailed(built.exc), << >>))
               /\ start_task' = NoTask
          ELSE /\ start_task' = [at |-> "create", before |-> before, overlapped |-> FALSE,
                                 request |-> UtcpClientConfig(built.templates), calls |-> << >>]
               /\ last' = last
    /\ UNCHANGED <<config, optional_imports, utcp_client, tools_cache, scope, held, pure>>

\* The awaited create finishes: it raises and start() raises, or the client
\* handle is assigned and _load_tools runs to its await of the discovery query.
StartCreateResumes ==
    /\ start_task.at = "create"
    /\ \E cr \in CreateResponses(utcp_client) :
          LET calls == <<CreateCall(start_task.request, cr)>>
          IN IF ~cr.ok
             THEN /\ last' = Happened("start", None, start_task.before,
                                      Outcome(utcp_client, tools_cache, TRUE, None, InitFailed(cr.exc), calls))
                  /\ start_task' = [at |-> "done", overlapped |-> start_task.overlapped]
                  /\ UNCHANGED utcp_client
             ELSE /\ utcp_client' = cr.value
                  /\ start_task' = [start_task EXCEPT !.at = "search_tools", !.calls = calls]
                  /\ last' = last
    /\ UNCHANGED <<config, optional_imports, tools_cache, scope, held, pure>>

\* The awaited discovery query finishes: the cache is assigned, from the
\* descriptors or empty when the query raised, and start() returns.
StartDiscoveryResumes ==
    /\ start_task.at = "search_tools"
    /\ \E sr \in SearchResponses :
          LET calls == start_task.calls \o <<SearchCall(start_task.calls[1].response.value, "", DiscoveryLimit, sr)>>
          IN /\ tools_cache' = IF sr.ok THEN WrapAll(sr.value, Self) ELSE << >>
             /\ last' = Happened("start", None, start_task.before,
                                 Outcome(utcp_client, tools_cache', FALSE, Self, None, calls))
             /\ start_task' = [at |-> "done", overlapped |-> start_task.overlapped]
    /\ UNCHANGED <<config, optional_imports, utcp_client, scope, held, pure>>

\* stop() has no await: it runs whole, between any two steps of a start().
StopAnytime ==
    /\ LET r == Stop(utcp_client, tools_cache)
       IN /\ utcp_client' = r.client
          /\ tools_cache' = r.cache
          /\ last' = Happened("stop", None, Fields(utcp_client, tools_cache), r)
    /\ start_task' = IF Suspended THEN [start_task EXCEPT !.overlapped = TRUE] ELSE start_task
    /\ UNCHANGED <<config, optional_imports, scope, held, pure>>

NextOverlapping ==
    \/ StartCalled
    \/ StartCreateResumes
    \/ StartDiscoveryResumes
    \/ StopAnytime

OverlappingSpec == Init /\ [][NextOverlapping]_vars

\* ------------------------------------------------------ configurations
MaxEntries == 2

MaxOptional == 3

Kinds == {"http", "sse", "streamable_http", "cli", "graphql", "mcp", "tcp", "udp", "text"}

\* Every field of an entry that start() looks at besides the required ones.
OptionalFields ==
    {"http_method", "content_type"} \cup CommonOptional \cup UNION {KindOptional(k) : k \in HttpKinds}

\* An entry of the given kind holding the given fields besides its name and
\* kind; the name tells entries of different kinds apart, every other
\* field holds a value that tells the fields apart.
Entry(kind, fields) ==
    [k \in {"name", "call_template_type"} \cup fields |->
        CASE k \in {"name", "call_template_type"} -> kind
          [] k = "http_method" -> "POST"
          [] k = "content_type" -> "text/plain"
          [] OTHER -> k]

Required(kind) == {RequiredFields(kind)[i] : i \in 1..Len(RequiredFields(kind))}

\* One complete entry per kind, an entry of a kind start() does not know,
\* an entry with no kind and one HTTP entry without its url.
MixedEntries ==
    {Entry(kind, Required(kind)) : kind \in Kinds \cup {"carrier_pigeon"}}
        \cup {[name |-> "untyped"], HttpNoUrl}

\* HTTP-family entries with up to MaxOptional of the optional fields.
HttpFamilyEntries ==
    {Entry(kind, {"url"} \cup fields) :
        kind \in HttpKinds, fields \in {F \in SUBSET OptionalFields : Cardinality(F) <= MaxOptional}}

ConfigInputs ==
    {Config(entries) : entries \in SeqUpTo(MixedEntries, MaxEntries)}
        \cup {Config(<<entry>>) : entry \in HttpFamilyEntries}
        \cup {[k \in {} |-> << >>]}

\* Each optional import may fail on its own.
ConfigEnvironments == {{}, {"cli", "socket"}, {"graphql", "mcp", "text"}, OptionalLibs}

ConfigInit ==
    /\ config \in ConfigInputs
    /\ optional_imports \in ConfigEnvironments
    /\ utcp_client = None
    /\ tools_cache = << >>
    /\ scope = "outside"
    /\ last = Happened("__init__", None, Fields(None, << >>), Outcome(None, << >>, FALSE, None, None, << >>))
    /\ held = None
    /\ start_task = NoTask
    /\ pure = None

\* Discovery on a client that has no tools, or that fails.
ConfigSearchResponses == {Returned(<< >>), Raised(ConnectionFailed)}

DoStartConfigured ==
    \E cr \in CreateResponses(utcp_client), sr \in ConfigSearchResponses :
        /\ Apply("start", None, Start(config, optional_imports, utcp_client, tools_cache, cr, sr))
        /\ UNCHANGED <<scope, held>>

NextConfig ==
    \/ DoStartConfigured
    \/ DoStop

ConfigSpec == ConfigInit /\ [][NextConfig]_vars

\* -------------------------------------------------- malformed entries
Without(entry, field) == [k \in DOMAIN entry \ {field} |-> entry[k]]

\* For every kind, its complete entry with one required field left out.
MalformedEntries ==
    {Without(Entry(kind, Required(kind)), field) : kind \in Kinds, field \in UNION {Required(k) : k \in Kinds}}
        \ {Entry(kind, Required(kind)) : kind \in Kinds}

\* A malformed entry alone, after a complete entry, before one, or between.
MalformedConfigs ==
    {Config(before \o <<entry>> \o after) :
        before \in {<< >>, <<Entry("http", Required("http"))>>},
        entry \in MalformedEntries,
        after \in {<< >>, <<Entry("cli", Required("cli"))>>}}

MalformedInit ==
    /\ config \in MalformedConfigs
    /\ optional_imports \in ConfigEnvironments
    /\ utcp_client = None
    /\ tools_cache = << >>
    /\ scope = "outside"
    /\ last = Happened("__init__", None, Fields(None, << >>), Outcome(None, << >>, FALSE, None, None, << >>))
    /\ held = None
    /\ start_task = NoTask
    /\ pure = None

MalformedSpec == MalformedInit /\ [][NextConfig]_vars

\* ------------------------------------------------- pure functions
\* An adapter that plays no part: the state while a pure function is studied.
Idle ==
    /\ config = [k \in {} |-> << >>]
    /\ optional_imports = {}
    /\ utcp_client = None
    /\ tools_cache = << >>
    /\ scope = "outside"
    /\ last = Happened("__init__", None, Fields(None, << >>), Outcome(None, << >>, FALSE, None, None, << >>))
    /\ held = None
    /\ start_task = NoTask

Pending(fn, input) == [fn |-> fn, input |-> input, done |-> FALSE]

\* The longest external name tried, and the longest varied head of a name.
MaxNameLen == 66

MaxHead == 2

NameAlphabet == {"a", "Z", "7", "_", "-", ".", " ", "!", "U+00E9"}

Repeat(char, n) == [i \in 1..n |-> char]

\* External names: every short non-empty text over the alphabet, alone and
\* padded to the lengths around the limit.
NameInputs ==
    LET heads == SeqUpTo(NameAlphabet, MaxHead) \ {<< >>}
    IN heads \cup {h \o Repeat(c, n - Len(h)) :
                      h \in heads, c \in {"a", "."}, n \in (MaxNameLength - 1)..MaxNameLen}

NameInit ==
    /\ Idle
    /\ pure \in {Pending("format_tool_name_for_bedrock", n) : n \in NameInputs}

DoFormatName ==
    /\ pure.fn = "format_tool_name_for_bedrock"
    /\ ~pure.done
    /\ \E uuid4 \in Uuid4s :
          pure' = [fn |-> pure.fn, input |-> pure.input, done |-> TRUE, uuid4 |-> uuid4,
                   output |-> FormatToolNameForBedrock(pure.input, uuid4)]
    /\ UNCHANGED <<config, optional_imports, utcp_client, tools_cache, scope, last, held, start_task>>

NameSpec == NameInit /\ [][DoFormatName]_vars

\* ----------------------------------------------------------------- schemas
\* Python values found on an external schema: None, a string, a list, a dict.
PyText(s) == [tag |-> "str", s |-> s]

PyList(items) == [tag |-> "list", items |-> items]

PyDict(items) == [tag |-> "dict", items |-> items]

\* The truth value Python gives a value in an if.
Bool(value) ==
    CASE value.tag = "None" -> FALSE
      [] value.tag = "str" -> value.s # ""
      [] value.tag = "list" -> value.items # << >>
      [] value.tag = "dict" -> DOMAIN value.items # {}

\* type_mapping.get(schema_obj.type, schema_obj.type)
TypeMapping(type) == IF type = PyText("file") \/ type = None THEN PyText("string") ELSE type

CopiedAttributes == {"description", "enum", "format"}

\* Mutant of ConvertSchemaToDict: an attribute is copied whenever the
\* source has it, empty or not.
ConvertCopiesPresent(schema_obj) ==
    IF "type" \in DOMAIN schema_obj
    THEN [k \in {"type"} \cup (CopiedAttributes \cap DOMAIN schema_obj) |->
            IF k = "type" THEN TypeMapping(schema_obj.type) ELSE schema_obj[k]]
    ELSE [type |-> PyText("string")]

\* _convert_schema_to_dict(schema_obj); schema_obj is the mapping from the
\* attributes the object has (hasattr) to their values.
ConvertSchemaToDict(schema_obj) ==
    IF "type" \in DOMAIN schema_obj
    THEN LET copied == {f \in CopiedAttributes \cap DOMAIN schema_obj : Bool(schema_obj[f])}
         IN [k \in {"type"} \cup copied |->
               IF k = "type" THEN TypeMapping(schema_obj.type) ELSE schema_obj[k]]
    ELSE [type |-> PyText("string")]

\* The dict comprehension over inputs.properties.items(), skipped when the
\* mapping is None or empty.
ConvertProperties(properties) ==
    IF Bool(properties)
    THEN [key \in DOMAIN properties.items |-> ConvertSchemaToDict(properties.items[key])]
    ELSE [key \in {} |-> None]

\* Mutant of InputSchema: required is included whenever it is a list.
InputSchemaAlwaysRequired(tool) ==
    LET inputs == tool.utcp_tool.inputs
        keys == {"type", "properties"}
                   \cup (IF inputs.required # None THEN {"required"} ELSE {})
                   \cup (IF Bool(inputs.description) THEN {"description"} ELSE {})
    IN [k \in keys |->
          CASE k = "type" -> PyText("object")
            [] k = "properties" -> ConvertProperties(inputs.properties)
            [] OTHER -> inputs[k]]

\* UtcpAgentTool.input_schema
InputSchema(tool) ==
    LET inputs == tool.utcp_tool.inputs
        keys == {"type", "properties"}
                   \cup (IF Bool(inputs.required) THEN {"required"} ELSE {})
                   \cup (IF Bool(inputs.description) THEN {"description"} ELSE {})
    IN [k \in keys |->
          CASE k = "type" -> PyText("object")
            [] k = "properties" -> ConvertProperties(inputs.properties)
            [] OTHER -> inputs[k]]

\* UtcpAgentTool.description
Description(tool) ==
    IF Bool(tool.utcp_tool.description)
    THEN <<tool.utcp_tool.description.s>>
    ELSE <<"Tool: ", tool.utcp_tool.name>>

\* UtcpAgentTool.tool_spec, which builds the schema with code of its own.
ToolSpec(tool, uuid4) ==
    LET inputs == tool.utcp_tool.inputs
        properties == IF Bool(inputs.properties)
                      THEN [key \in DOMAIN inputs.properties.items |->
                               ConvertSchemaToDict(inputs.properties.items[key])]
                      ELSE [key \in {} |-> None]
        keys == {"type", "properties"}
                   \cup (IF Bool(inputs.required) THEN {"required"} ELSE {})
                   \cup (IF Bool(inputs.description) THEN {"description"} ELSE {})
        schema == [k \in keys |->
                     CASE k = "type" -> PyText("object")
                       [] k = "properties" -> properties
                       [] OTHER -> inputs[k]]
    IN [inputSchema |-> [json |-> schema], name |-> ToolName(tool, uuid4), description |-> Description(tool)]

\* Values an attribute of an external property may hold.
AttributeValues(attribute) ==
    CASE attribute = "type" -> {None, PyText("file"), PyText("string"), PyText("integer"), PyText("")}
      [] attribute = "description" -> {None, PyText(""), PyText("The city")}
      [] attribute = "enum" -> {None, PyList(<< >>), PyList(<<"c", "f">>)}
      [] attribute = "format" -> {None, PyText(""), PyText("date")}

\* External properties: every choice of attributes the object has, with
\* every choice of their values.
PropertyObjects ==
    UNION {{obj \in [attributes -> UNION {AttributeValues(a) : a \in attributes}] :
                \A a \in attributes : obj[a] \in AttributeValues(a)} :
           attributes \in SUBSET ({"type"} \cup CopiedAttributes)}

\* The plain dict the test fixture uses as a property, a file property
\* and a property with everything set.
SampleProperties ==
    {[k \in {} |-> None],
     [type |-> PyText("file"), description |-> PyText("")],
     [type |-> PyText("integer"), description |-> PyText("The city"), enum |-> PyList(<<"c", "f">>), format |-> PyText("date")]}

PropertyMappings ==
    {None} \cup UNION {{PyDict(items) : items \in [keys -> SampleProperties]} : keys \in SUBSET {"param1", "param2"}}

\* External tools with every shape of input schema.
SchemaTools ==
    {[tag |-> "Tool", name |-> "a.b", description |-> d,
      inputs |-> [properties |-> ps, required |-> r, description |-> sd]] :
        d \in {None, PyText("Test tool description")},
        ps \in PropertyMappings,
        r \in {None, PyList(<< >>), PyList(<<"param1">>)},
        sd \in {None, PyText(""), PyText("Test input schema")}}

SchemaInit ==
    /\ Idle
    /\ pure \in {Pending("_convert_schema_to_dict", obj) : obj \in PropertyObjects}
                \cup {Pending("input_schema", UtcpAgentTool(tool, Self)) : tool \in SchemaTools}

DoConvertSchema ==
    /\ pure.fn = "_convert_schema_to_dict"
    /\ ~pure.done
    /\ pure' = [fn |-> pure.fn, input |-> pure.input, done |-> TRUE,
                output |-> ConvertSchemaToDict(pure.input)]
    /\ UNCHANGED <<config, optional_imports, utcp_client, tools_cache, scope, last, held, start_task>>

\* One read of input_schema and one of tool_spec on the same tool.
DoReadSchema ==
    /\ pure.fn = "input_schema"
    /\ ~pure.done
    /\ \E uuid4 \in Uuid4s :
          pure' = [fn |-> pure.fn, input |-> pure.input, done |-> TRUE,
                   output |-> InputSchema(pure.input), tool_spec |-> ToolSpec(pure.input, uuid4)]
    /\ UNCHANGED <<config, optional_imports, utcp_client, tools_cache, scope, last, held, start_task>>

NextSchema ==
    \/ DoConvertSchema
    \/ DoReadSchema

SchemaSpec == SchemaInit /\ [][NextSchema]_vars

\* ------------------------------------------------------------------ claims
\* What the single client call of the last operation did.
TheCall == last.calls[1]

ClientReturned == Len(last.calls) = 1 /\ TheCall.response.ok

ClientRaised == Len(last.calls) = 1 /\ ~TheCall.response.ok

Unchanged == utcp_client = last.before.client /\ tools_cache = last.before.cache

Rejected(r, client, cache) ==
    /\ r.raised
    /\ r.error = UtcpToolAdapterError(<<NotInitializedMsg>>, None)
    /\ r.calls = << >>
    /\ r.client = client
    /\ r.cache = cache

\* C1: with no client handle, call_tool and search_tools raise the adapter
\* error "UTCP client not initialized", call the external client not at all,
\* and leave the client handle and the cache as they were. Stated of the
\* operation that ran last and of every call that could follow in any
\* reachable state without a client.
C1_NoClientRejects ==
    /\ (last.op \in {"call_tool", "search_tools"} /\ last.before.client = None) =>
          /\ last.raised
          /\ last.error = UtcpToolAdapterError(<<NotInitializedMsg>>, None)
          /\ last.calls = << >>
          /\ Unchanged
    /\ utcp_client = None =>
          /\ \A n \in ToolNames, a \in Arguments, resp \in CallResponses :
                Rejected(CallTool(utcp_client, tools_cache, n, a, resp), utcp_client, tools_cache)
          /\ \A q \in Queries, m \in MaxResults, resp \in SearchResponses :
                Rejected(SearchTools(utcp_client, tools_cache, q, m, resp), utcp_client, tools_cache)

C1_Witness ==
    /\ last.op = "search_tools"
    /\ last.before.client = None
    /\ last.raised
    /\ last.args.query = "weather"

\* C2 (as claimed): whenever start() raises, the adapter is afterwards
\* uninitialized (no client handle, empty cache), whatever state it was in
\* before, and the error is the adapter error "...initialization failed: ..."
\* whose cause is the original exception.
C2_FailedStartUninitialized ==
    (last.op = "start" /\ last.raised) =>
        /\ utcp_client = None
        /\ tools_cache = << >>
        /\ last.error.type = "UtcpToolAdapterError"
        /\ Head(last.error.msg) = InitFailedPrefix
        /\ last.error.cause # None

\* C3: stop() never raises and leaves no client handle and an empty cache,
\* in every reachable state; a second stop() changes nothing more.
C3_StopClears ==
    LET once == Stop(utcp_client, tools_cache)
        twice == Stop(once.client, once.cache)
    IN /\ last.op = "stop" => ~last.raised /\ utcp_client = None /\ tools_cache = << >>
       /\ ~once.raised /\ once.client = None /\ once.cache = << >>
       /\ ~twice.raised /\ twice.client = once.client /\ twice.cache = once.cache

C3_Witness ==
    /\ last.op = "stop"
    /\ last.before.client # None
    /\ Len(last.before.cache) = 2
    /\ utcp_client = None

\* C4: used as a scoped resource, start() runs on entry (the body is entered
\* exactly when it returns), and on every exit of the body, normal or by an
\* exception, stop() has run: no client handle, an empty cache, and the
\* body's exception propagates.
C4_ScopeStops ==
    /\ last.op = "__aenter__" =>
          /\ last.calls # << >> => last.calls[1].op = "create"
          /\ scope = (IF last.raised THEN "outside" ELSE "body")
          /\ ~last.raised => last.value = Self /\ utcp_client # None
    /\ last.op = "__aexit__" =>
          /\ scope = "outside"
          /\ utcp_client = None
          /\ tools_cache = << >>
          /\ last.raised = (last.args.exc_val # None)
          /\ last.raised => last.error = last.args.exc_val

C4_Witness ==
    /\ last.op = "__aexit__"
    /\ last.args.exc_val = BodyError
    /\ last.before.client # None
    /\ last.before.cache # << >>
    /\ last.raised

\* C5: after a start() that returns, the value is the adapter itself, the
\* client handle is the created client, and the cache holds one wrapped tool
\* per descriptor the discovery query (query "", limit 1000) returned, in
\* the same order, each bound to this adapter.
C5_StartLoadsCache ==
    (last.op = "start" /\ ~last.raised) =>
        /\ last.value = Self
        /\ utcp_client # None
        /\ Len(last.calls) = 2
        /\ last.calls[1].op = "create" /\ last.calls[1].response.value = utcp_client
        /\ last.calls[2].op = "search_tools"
        /\ last.calls[2].on = utcp_client
        /\ last.calls[2].query = ""
        /\ last.calls[2].limit = 1000
        /\ last.calls[2].response.ok =>
              /\ Len(tools_cache) = Len(last.calls[2].response.value)
              /\ \A i \in 1..Len(tools_cache) :
                    /\ tools_cache[i].utcp_tool = last.calls[2].response.value[i]
                    /\ tools_cache[i].adapter = Self

C5_Witness ==
    /\ last.op = "start"
    /\ ~last.raised
    /\ Len(tools_cache) = 2
    /\ tools_cache[1].utcp_tool.name = "a.b"
    /\ tools_cache[2].utcp_tool.name = "a_b"

\* C6: when client creation succeeds and the discovery query raises, start()
\* returns the adapter with the client handle present and the cache empty;
\* a following call_tool is not rejected and list_tools() is empty.
C6_DiscoveryFailureNonFatal ==
    (last.op = "start" /\ Len(last.calls) = 2 /\ ~last.calls[2].response.ok) =>
        /\ ~last.raised
        /\ last.value = Self
        /\ utcp_client = last.calls[1].response.value
        /\ utcp_client # None
        /\ tools_cache = << >>
        /\ ListTools(utcp_client, tools_cache).value = ListOf(<< >>)
        /\ \A n \in ToolNames, a \in Arguments, resp \in CallResponses :
              LET r == CallTool(utcp_client, tools_cache, n, a, resp)
              IN /\ Len(r.calls) = 1
                 /\ resp.ok => ~r.raised

C6_Witness ==
    /\ last.op = "start"
    /\ Len(last.calls) = 2
    /\ last.calls[2].response = Raised(ConnectionFailed)
    /\ last.before.cache # << >>

\* C7: on a started adapter, adapter.call_tool(name, args) and a wrapped
\* tool's call(**kwargs) each make exactly one client call_tool, with the
\* (external, unsanitized) name and the arguments given, and return what the
\* client returned, whatever its shape.
C7_CallDelegatesOnce ==
    /\ (last.op = "call_tool" /\ last.before.client # None) =>
          /\ Len(last.calls) = 1
          /\ TheCall.op = "call_tool"
          /\ TheCall.on = last.before.client
          /\ TheCall.tool_name = last.args.tool_name
          /\ TheCall.tool_args = last.args.arguments
          /\ TheCall.response.ok => ~last.raised /\ last.value = TheCall.response.value
    /\ (last.op = "tool.call" /\ last.before.client # None) =>
          /\ Len(last.calls) = 1
          /\ TheCall.op = "call_tool"
          /\ TheCall.on = last.before.client
          /\ TheCall.tool_name = last.args.tool.utcp_tool.name
          /\ TheCall.tool_args = last.args.kwargs
          /\ TheCall.response.ok => ~last.raised /\ last.value = TheCall.response.value

C7_Witness ==
    /\ last.op = "tool.call"
    /\ last.args.tool.utcp_tool.name = "a.b"
    /\ last.args.kwargs = Args1
    /\ ClientReturned
    /\ last.value = DictResult

\* C8: on a started adapter, when the client's call_tool raises, call_tool
\* raises the adapter error with the original exception as its cause, and
\* the client handle and the cache are what they were before the call.
C8_CallFailureWrapped ==
    (last.op = "call_tool" /\ ClientRaised) =>
        /\ last.raised
        /\ last.error.type = "UtcpToolAdapterError"
        /\ last.error.cause = TheCall.response.exc
        /\ last.error.msg = <<ExecFailedPrefix>> \o TheCall.response.exc.msg
        /\ Unchanged
        /\ utcp_client # None

C8_Witness ==
    /\ last.op = "call_tool"
    /\ ClientRaised
    /\ TheCall.response.exc = ClientTimeout
    /\ tools_cache # << >>

\* C9: on a started adapter, when the client's search raises, search_tools
\* returns an empty list and does not raise.
C9_SearchFailureEmpty ==
    (last.op = "search_tools" /\ ClientRaised) =>
        /\ ~last.raised
        /\ last.value = ListOf(<< >>)
        /\ last.error = None

C9_Witness ==
    /\ last.op = "search_tools"
    /\ ClientRaised
    /\ last.before.client # None
    /\ ~last.raised

\* The one envelope a stream() yielded.
Envelope == last.value.items[1]

\* call_tool inside stream() raised: no client, or the client raised.
InnerRaised == last.before.client = None \/ ClientRaised

InnerError ==
    IF last.before.client = None THEN UtcpToolAdapterError(<<NotInitializedMsg>>, None)
    ELSE UtcpToolAdapterError(<<ExecFailedPrefix>> \o TheCall.response.exc.msg, TheCall.response.exc)

\* C10 (as claimed): stream() yields exactly one envelope and never raises;
\* the envelope has status success when call_tool returned, and status error
\* with the exception message when call_tool raised (no client included).
C10_EnvelopeFollowsCall ==
    last.op = "tool.stream" =>
        /\ ~last.raised
        /\ Len(last.value.items) = 1
        /\ ~InnerRaised => Envelope.status = "success"
        /\ InnerRaised =>
              /\ Envelope.status = "error"
              /\ Envelope.content = <<[text |-> <<"Error: ">> \o InnerError.msg]>>

\* A mapping json.dumps cannot serialize.
Unserializable(result) == result.tag = "dict" /\ ~JsonDumps(result).ok

\* C10 (amended): stream() yields exactly one envelope and never raises; the
\* envelope has status success when call_tool returned a result that could
\* be rendered, and status error with the exception message when call_tool
\* raised (no client included) or when serializing a mapping result raised.
C10_EnvelopeAlways ==
    last.op = "tool.stream" =>
        /\ ~last.raised
        /\ Len(last.value.items) = 1
        /\ Envelope.toolUseId = Get(last.args.tool_use, "toolUseId", "unknown")
        /\ (~InnerRaised /\ ~Unserializable(TheCall.response.value)) => Envelope.status = "success"
        /\ (~InnerRaised /\ Unserializable(TheCall.response.value)) =>
              /\ Envelope.status = "error"
              /\ Envelope.content = <<[text |-> <<"Error: ">> \o JsonDumps(TheCall.response.value).exc.msg]>>
        /\ InnerRaised =>
              /\ Envelope.status = "error"
              /\ Envelope.content = <<[text |-> <<"Error: ">> \o InnerError.msg]>>

C10_Witness ==
    /\ last.op = "tool.stream"
    /\ last.before.client = None
    /\ Len(last.value.items) = 1
    /\ Envelope.status = "error"

\* C11: list_tools() returns a new sequence equal to the cache, calls the
\* client not at all and changes no adapter state; a second list_tools()
\* returns an equal sequence; mutating a returned sequence leaves the cache
\* as it was; to_strands_tools() returns a sequence equal to list_tools().
C11_ListIsCopy ==
    LET first == ListTools(utcp_client, tools_cache)
        second == ListTools(first.client, first.cache)
    IN /\ last.op \in {"list_tools", "to_strands_tools"} =>
             /\ ~last.raised
             /\ last.value = [tag |-> "list", items |-> tools_cache]
             /\ last.calls = << >>
             /\ Unchanged
             /\ held.items = tools_cache
             /\ ~held.same
       /\ last.op = "mutate_returned" => Unchanged
       /\ first.calls = << >> /\ first.client = utcp_client /\ first.cache = tools_cache
       /\ second.value = first.value
       /\ ToStrandsTools(utcp_client, tools_cache).value = first.value

C11_Witness ==
    /\ last.op = "mutate_returned"
    /\ Len(tools_cache) = 2
    /\ held.items = << >>

Formatted == pure.fn = "format_tool_name_for_bedrock" /\ pure.done

AsciiNameChars ==
    {"a", "b", "c", "d", "e", "f", "g", "h", "i", "j", "k", "l", "m", "n", "o", "p", "q", "r", "s",
     "t", "u", "v", "w", "x", "y", "z", "A", "B", "C", "D", "E", "F", "G", "H", "I", "J", "K", "L",
     "M", "N", "O", "P", "Q", "R", "S", "T", "U", "V", "W", "X", "Y", "Z", "0", "1", "2", "3", "4",
     "5", "6", "7", "8", "9"}

\* C15 (as claimed): the sanitized name matches ^[a-zA-Z0-9_-]{1,64}$ for
\* every external name.
C15_NameMeetsConstraint ==
    Formatted =>
        /\ Len(pure.output) >= 1
        /\ Len(pure.output) <= 64
        /\ \A i \in 1..Len(pure.output) : pure.output[i] \in AsciiNameChars \cup {"_", "-"}

\* The character-wise sanitized form of a name: position by position.
Sanitized(name) ==
    [i \in 1..Len(name) |->
        IF name[i] = "." THEN "_"
        ELSE IF IsAlnum(name[i]) \/ name[i] = "_" \/ name[i] = "-" THEN name[i]
        ELSE "_"]

\* C16: a name whose sanitized form is longer than 64 characters gives
\* exactly 64: the first 55 sanitized characters, "_", and 8 characters of
\* [a-zA-Z0-9]; a name of at most 64 characters gives a result of its own
\* length, with no suffix added.
C16_TruncationShape ==
    Formatted =>
        /\ Len(pure.input) > 64 =>
              /\ Len(pure.output) = 64
              /\ SubSeq(pure.output, 1, 55) = SubSeq(Sanitized(pure.input), 1, 55)
              /\ pure.output[56] = "_"
              /\ \A i \in 57..64 : pure.output[i] \in AsciiNameChars
        /\ Len(pure.input) <= 64 =>
              /\ Len(pure.output) = Len(pure.input)
              /\ pure.output = Sanitized(pure.input)

C16_Witness ==
    /\ Formatted
    /\ Len(pure.input) = 65
    /\ pure.input[1] = "!"
    /\ pure.input[65] = "."
    /\ Len(pure.output) = 64

\* C17: for a name of at most 64 characters sanitization is position-wise:
\* "." becomes "_", any other character that is not alphanumeric, "_" or "-"
\* becomes "_", and alphanumerics, "_" and "-" stay in place.
C17_PositionWise ==
    (Formatted /\ Len(pure.input) <= 64) =>
        /\ Len(pure.output) = Len(pure.input)
        /\ \A i \in 1..Len(pure.input) :
              LET c == pure.input[i]
              IN /\ c = "." => pure.output[i] = "_"
                 /\ (c # "." /\ ~IsAlnum(c) /\ c \notin {"_", "-"}) => pure.output[i] = "_"
                 /\ (IsAlnum(c) \/ c \in {"_", "-"}) => pure.output[i] = c

C17_Witness ==
    /\ Formatted
    /\ Len(pure.input) = 64
    /\ pure.input[1] = "."
    /\ pure.input[2] = " "
    /\ pure.input[3] = "a"
    /\ pure.output[1] = "_"
    /\ pure.output[2] = "_"
    /\ pure.output[3] = "a"

\* The positions of the cache whose tool answers to the name looked up:
\* by its sanitized name as read during the scan, or by its external name.
Matching ==
    {i \in 1..Len(tools_cache) :
        \/ ToolName(tools_cache[i], last.args.uuids[i]) = last.args.name
        \/ Chars(tools_cache[i].utcp_tool.name) = last.args.name}

\* C12: get_tool(name) returns the first tool in cache order whose sanitized
\* name or whose external name equals name, and None exactly when no cached
\* tool matches; it calls the client not at all and leaves the cache alone.
C12_GetToolFirstMatch ==
    last.op = "get_tool" =>
        /\ ~last.raised
        /\ last.calls = << >>
        /\ Unchanged
        /\ Matching = {} <=> last.value = None
        /\ Matching # {} =>
              last.value = tools_cache[CHOOSE i \in Matching : \A j \in Matching : i <= j]

C12_Witness ==
    /\ last.op = "get_tool"
    /\ Len(tools_cache) = 2
    /\ last.args.name = Chars("a.b")
    /\ last.value = tools_cache[2]
    /\ last.value # tools_cache[1]

\* The entries of the configuration, and those start() does not skip: of
\* a kind it always has, or of a kind whose integration was imported.
Entries == IF "manual_call_templates" \in DOMAIN config THEN config.manual_call_templates ELSE << >>

Usable(entry) ==
    /\ "call_template_type" \in DOMAIN entry
    /\ \/ entry.call_template_type \in {"http", "sse", "streamable_http"}
       \/ entry.call_template_type \in {"cli", "graphql", "mcp", "text"}
             /\ entry.call_template_type \in optional_imports
       \/ entry.call_template_type \in {"tcp", "udp"} /\ "socket" \in optional_imports

Complete(entry) ==
    LET kind == entry.call_template_type
    IN  /\ "name" \in DOMAIN entry
        /\ kind \in {"http", "sse", "streamable_http", "graphql"} => "url" \in DOMAIN entry
        /\ kind \in {"cli", "mcp"} => "command" \in DOMAIN entry
        /\ kind \in {"tcp", "udp"} => {"host", "port"} \subseteq DOMAIN entry
        /\ kind = "text" => "file_path" \in DOMAIN entry

Kept == SelectSeq(Entries, Usable)

WellFormed == \A i \in 1..Len(Kept) : Complete(Kept[i])

ClassOf(kind) ==
    CASE kind = "http" -> "HttpCallTemplate"
      [] kind = "sse" -> "SseCallTemplate"
      [] kind = "streamable_http" -> "StreamableHttpCallTemplate"
      [] kind = "cli" -> "CliCallTemplate"
      [] kind = "graphql" -> "GqlCallTemplate"
      [] kind = "mcp" -> "McpCallTemplate"
      [] kind = "tcp" -> "TcpCallTemplate"
      [] kind = "udp" -> "UdpCallTemplate"
      [] kind = "text" -> "TextCallTemplate"

\* The templates the client was created with.
Templates == last.calls[1].config.manual_call_templates

\* C13: when no entry that is used lacks a required field, start() skips
\* every entry of an unknown kind or of a kind whose integration is not
\* installed and goes on: the client is created with exactly one template
\* per remaining entry, of its kind and in configuration order (with none
\* when all are skipped or there are no entries), and start() raises only
\* if creating the client raises.
C13_SkippedEntriesNotFatal ==
    last.op = "start" /\ WellFormed =>
        /\ last.calls # << >>
        /\ last.calls[1].op = "create"
        /\ Len(Templates) = Len(Kept)
        /\ \A i \in 1..Len(Kept) :
              /\ Templates[i].cls = ClassOf(Kept[i].call_template_type)
              /\ Templates[i].kwargs.call_template_type = Kept[i].call_template_type
              /\ Templates[i].kwargs.name = Kept[i].name
        /\ last.raised <=> ~last.calls[1].response.ok

C13_Witness ==
    /\ last.op = "start"
    /\ ~last.raised
    /\ Len(Entries) = 2
    /\ ~Usable(Entries[1])
    /\ "call_template_type" \in DOMAIN Entries[1]
    /\ Entries[1].call_template_type \in {"cli", "carrier_pigeon"}
    /\ Usable(Entries[2])
    /\ Len(Templates) = 1

\* The optional fields start() hands on for each kind of the HTTP family.
PassThrough(kind) ==
    {"auth", "headers", "body_field", "header_fields"} \cup
        CASE kind = "http" -> {"auth_tools"}
          [] kind = "sse" -> {"event_type", "reconnect", "retry_timeout"}
          [] kind = "streamable_http" -> {"chunk_size", "timeout"}

\* C14: the parameters built for an http, sse or streamable_http entry hold
\* name, kind, url, http_method (GET when the entry has none) and
\* content_type (application/json when the entry has none), and an optional
\* field exactly when the entry has it and it is in the pass-through set of
\* the entry's kind, with the entry's value.
C14_HttpFamilyParameters ==
    last.op = "start" /\ WellFormed /\ last.calls # << >> =>
        \A i \in 1..Len(Kept) :
            LET entry == Kept[i]
                kind == entry.call_template_type
                kwargs == Templates[i].kwargs
                passed == PassThrough(kind) \cap DOMAIN entry
            IN  kind \in {"http", "sse", "streamable_http"} =>
                    /\ DOMAIN kwargs = {"name", "call_template_type", "url", "http_method", "content_type"} \cup passed
                    /\ kwargs.name = entry.name
                    /\ kwargs.call_template_type = kind
                    /\ kwargs.url = entry.url
                    /\ kwargs.http_method = (IF "http_method" \in DOMAIN entry THEN entry.http_method ELSE "GET")
                    /\ kwargs.content_type = (IF "content_type" \in DOMAIN entry THEN entry.content_type ELSE "application/json")
                    /\ \A f \in passed : kwargs[f] = entry[f]

C14_Witness ==
    /\ last.op = "start"
    /\ last.calls # << >>
    /\ Len(Entries) = 1
    /\ Usable(Entries[1])
    /\ Entries[1].call_template_type = "sse"
    /\ {"chunk_size", "event_type", "headers"} \subseteq DOMAIN Entries[1]
    /\ "http_method" \notin DOMAIN Entries[1]
    /\ DOMAIN Templates[1].kwargs =
          {"name", "call_template_type", "url", "http_method", "content_type", "event_type", "headers"}
    /\ Templates[1].kwargs.http_method = "GET"

Converted == pure.fn = "_convert_schema_to_dict" /\ pure.done

\* A value that is set and not empty: a non-empty string or list.
NonEmpty(value) ==
    \/ value.tag = "str" /\ value.s # ""
    \/ value.tag = "list" /\ Len(value.items) > 0

\* C18: a property that has a type attribute converts to a mapping whose
\* type is "string" when the property's type is None or "file" and the
\* property's type otherwise, and which holds description, enum and format
\* exactly when the property has them non-empty, with the property's
\* values; a property with no type attribute converts to exactly
\* {"type": "string"}.
C18_PropertyConversion ==
    Converted =>
        LET source == pure.input
            result == pure.output
        IN  IF "type" \in DOMAIN source
            THEN /\ "type" \in DOMAIN result
                 /\ DOMAIN result \subseteq {"type", "description", "enum", "format"}
                 /\ source.type.tag = "None" => result.type = [tag |-> "str", s |-> "string"]
                 /\ source.type.tag = "str" /\ source.type.s = "file" => result.type = [tag |-> "str", s |-> "string"]
                 /\ source.type.tag = "str" /\ source.type.s # "file" => result.type = source.type
                 /\ \A f \in {"description", "enum", "format"} :
                       /\ f \in DOMAIN result <=> f \in DOMAIN source /\ NonEmpty(source[f])
                       /\ f \in DOMAIN result => result[f] = source[f]
            ELSE /\ DOMAIN result = {"type"}
                 /\ result.type = [tag |-> "str", s |-> "string"]

C18_Witness ==
    /\ Converted
    /\ DOMAIN pure.input = {"type", "description", "enum", "format"}
    /\ pure.input.type = [tag |-> "str", s |-> "file"]
    /\ pure.input.description = [tag |-> "str", s |-> ""]
    /\ pure.input.enum = [tag |-> "list", items |-> <<"c", "f">>]
    /\ DOMAIN pure.output = {"type", "enum"}

SchemaRead == pure.fn = "input_schema" /\ pure.done

\* C19: input_schema has type "object" and a properties mapping with
\* exactly the keys of the external property mapping (none when that is
\* None or empty); it has required exactly when the external required list
\* is non-empty and description exactly when the external schema's
\* description is non-empty; the schema inside tool_spec equals it.
C19_InputSchemaShape ==
    SchemaRead =>
        LET inputs == pure.input.utcp_tool.inputs
            schema == pure.output
        IN  /\ {"type", "properties"} \subseteq DOMAIN schema
            /\ DOMAIN schema \subseteq {"type", "properties", "required", "description"}
            /\ schema.type = [tag |-> "str", s |-> "object"]
            /\ DOMAIN schema.properties =
                  (IF inputs.properties.tag = "dict" THEN DOMAIN inputs.properties.items ELSE {})
            /\ "required" \in DOMAIN schema <=> NonEmpty(inputs.required)
            /\ "required" \in DOMAIN schema => schema.required = inputs.required
            /\ "description" \in DOMAIN schema <=> NonEmpty(inputs.description)
            /\ "description" \in DOMAIN schema => schema.description = inputs.description
            /\ pure.tool_spec.inputSchema.json = schema

C19_Witness ==
    /\ SchemaRead
    /\ pure.input.utcp_tool.inputs.required = [tag |-> "list", items |-> << >>]
    /\ pure.input.utcp_tool.inputs.description = [tag |-> "str", s |-> "Test input schema"]
    /\ pure.input.utcp_tool.inputs.properties.tag = "dict"
    /\ DOMAIN pure.input.utcp_tool.inputs.properties.items = {"param1", "param2"}
    /\ DOMAIN pure.output = {"type", "properties", "description"}
    /\ DOMAIN pure.output.properties = {"param1", "param2"}

\* The JSON text of a result that is not a string.
JsonText(result) ==
    CASE result = None -> "null"
      [] result = DictResult -> "{\n  \"result\": \"success\"\n}"

\* C20 (as claimed): in a success envelope of stream() the content is the
\* result itself when the result is a string, and the JSON serialization of
\* the result when it is anything else.
C20_ContentIsJson ==
    (last.op = "tool.stream" /\ ClientReturned /\ Envelope.status = "success") =>
        LET result == TheCall.response.value
        IN  Envelope.content =
                <<[text |-> IF result.tag = "str" THEN <<result.py>> ELSE <<JsonText(result)>>]>>

\* The client calls the last operation made, by name and in order.
CallNames == [i \in 1..Len(last.calls) |-> last.calls[i].op]

\* C21 (as claimed): start(), call_tool() and search_tools() each make
\* exactly one call to the client library; list_tools(), get_tool(),
\* to_strands_tools() and stop() make none.
C21_OneCallPerOperation ==
    /\ last.op \in {"start", "call_tool", "search_tools"} => Len(last.calls) = 1
    /\ last.op \in {"list_tools", "get_tool", "to_strands_tools", "stop"} => last.calls = << >>

\* C21 (amended): start() makes no call when building a template raises,
\* else one create call, followed by exactly one discovery query when create
\* returned; call_tool() and search_tools() make exactly one call when a
\* client is present and none when it is absent; list_tools(), get_tool(),
\* to_strands_tools() and stop() make none. No operation calls the same
\* client method twice.
C21_CallsPerOperation ==
    /\ last.op = "start" =>
          \/ last.calls = << >> /\ last.raised
          \/ CallNames = <<"create">> /\ ~last.calls[1].response.ok
          \/ CallNames = <<"create", "search_tools">> /\ last.calls[1].response.ok
    /\ last.op = "call_tool" =>
          CallNames = (IF last.before.client = None THEN << >> ELSE <<"call_tool">>)
    /\ last.op = "search_tools" =>
          CallNames = (IF last.before.client = None THEN << >> ELSE <<"search_tools">>)
    /\ last.op \in {"list_tools", "get_tool", "to_strands_tools", "stop"} => last.calls = << >>

C21_Witness ==
    /\ last.op = "start"
    /\ ~last.raised
    /\ CallNames = <<"create", "search_tools">>
    /\ tools_cache # << >>

\* The fields the kind of an entry requires.
Needed(entry) ==
    {"name"} \cup
        CASE entry.call_template_type \in {"http", "sse", "streamable_http", "graphql"} -> {"url"}
          [] entry.call_template_type \in {"cli", "mcp"} -> {"command"}
          [] entry.call_template_type \in {"tcp", "udp"} -> {"host", "port"}
          [] entry.call_template_type = "text" -> {"file_path"}

\* C22: when an entry that start() uses lacks a field its kind requires,
\* start() raises the adapter's "initialization failed" error whose cause is
\* the KeyError naming a missing field of such an entry, the client factory
\* is not called (no call is made at all), and the adapter is left as it was.
C22_MissingFieldFatal ==
    (last.op = "start" /\ ~WellFormed) =>
        /\ last.raised
        /\ last.error.type = "UtcpToolAdapterError"
        /\ last.error.cause.type = "KeyError"
        /\ last.error.msg = <<"UTCP tool adapter initialization failed: ">> \o last.error.cause.msg
        /\ \E i \in 1..Len(Kept) : \E field \in Needed(Kept[i]) \ DOMAIN Kept[i] :
              last.error.cause.msg = <<"'", field, "'">>
        /\ last.calls = << >>
        /\ Unchanged

C22_Witness ==
    /\ last.op = "start"
    /\ last.raised
    /\ Len(Kept) = 3
    /\ Complete(Kept[1])
    /\ Kept[2].call_template_type = "tcp"
    /\ DOMAIN Kept[2] = {"name", "call_template_type", "host"}
    /\ last.calls = << >>

\* C23 (as claimed): search_tools(query, max_results) on a started adapter
\* hands the client the query unchanged and limit = max_results whenever
\* max_results is set, limit = 100 only when it is None; the descriptors the
\* client returns come back wrapped, in order.
C23_LimitPassedThrough ==
    (last.op = "search_tools" /\ last.before.client # None) =>
        /\ Len(last.calls) = 1
        /\ TheCall.op = "search_tools"
        /\ TheCall.query = last.args.query
        /\ TheCall.limit = (IF last.args.max_results = None THEN 100 ELSE last.args.max_results.n)
        /\ TheCall.response.ok =>
              /\ Len(last.value.items) = Len(TheCall.response.value)
              /\ \A i \in 1..Len(last.value.items) :
                    last.value.items[i].utcp_tool = TheCall.response.value[i]

\* C24: whatever sequence of start(), stop(), call_tool(), search_tools(),
\* list_tools(), to_strands_tools() and get_tool() has run, one after the
\* other and with every client call free to return or raise, the cache is
\* empty whenever there is no client handle.
C24_NoClientNoCache == utcp_client = None => tools_cache = << >>

C24_Witness ==
    /\ last.op = "stop"
    /\ last.before.client # None
    /\ Len(last.before.cache) = 1
    /\ utcp_client = None
    /\ tools_cache = << >>

\* C25 (as claimed): when a stop() has run while a start() was suspended at
\* an await, then once that start() has finished, and until start() is
\* called again, the adapter is stopped: no client handle, and list_tools()
\* returns an empty list.
C25_StopWinsOverStart ==
    (start_task.at = "done" /\ start_task.overlapped) =>
        /\ utcp_client = None
        /\ ListTools(utcp_client, tools_cache).value.items = << >>

\* C26 (as claimed): the name of a wrapped tool is the same at every read,
\* and looking a cached tool up by a name read from it finds a tool, also
\* when its external name sanitizes to more than 64 characters.
C26_NameStable ==
    /\ \A i \in 1..Len(tools_cache) : \A first, second \in Uuid4s :
          ToolName(tools_cache[i], first) = ToolName(tools_cache[i], second)
    /\ (last.op = "get_tool" /\ \E i \in 1..Len(tools_cache) : \E read \in Uuid4s :
                                    ToolName(tools_cache[i], read) = last.args.name)
          => last.value # None

\* C27 (as claimed): get_tool(n), where n is the external name of a cached
\* tool, returns a tool whose external name is n, also when an earlier
\* cached tool has a sanitized name equal to n.
C27_ExternalNameFindsItsTool ==
    (last.op = "get_tool" /\ \E i \in 1..Len(tools_cache) :
                                 Chars(tools_cache[i].utcp_tool.name) = last.args.name)
        => /\ last.value # None
           /\ Chars(last.value.utcp_tool.name) = last.args.name

\* C28: when start() returns on an adapter that was already started, the
\* client handle is the client just created, not the old one, and the cache
\* holds the wrapped descriptors of the latest discovery query and nothing
\* else (it is empty when that query raised).
C28_RestartReplaces ==
    (last.op = "start" /\ last.before.client # None /\ ~last.raised) =>
        /\ Len(last.calls) = 2
        /\ last.calls[1].op = "create"
        /\ utcp_client = last.calls[1].response.value
        /\ utcp_client # last.before.client
        /\ last.calls[2].op = "search_tools"
        /\ LET found == IF last.calls[2].response.ok THEN last.calls[2].response.value ELSE << >>
           IN  /\ Len(tools_cache) = Len(found)
               /\ \A i \in 1..Len(found) : tools_cache[i].utcp_tool = found[i]

C28_Witness ==
    /\ last.op = "start"
    /\ ~last.raised
    /\ last.before.client # None
    /\ Len(last.before.cache) = 2
    /\ Len(tools_cache) = 1
    /\ tools_cache[1] # last.before.cache[1]
    /\ tools_cache[1] # last.before.cache[2]

\* C29: search_tools() and call_tool() leave the client handle and the cache
\* as they found them, whether the client returns or raises or there is no
\* client: list_tools() gives equal lists before and after.
C29_SearchAndCallFrame ==
    last.op \in {"search_tools", "call_tool"} =>
        /\ utcp_client = last.before.client
        /\ tools_cache = last.before.cache
        /\ ListTools(utcp_client, tools_cache).value
              = ListTools(last.before.client, last.before.cache).value

C29_Witness ==
    /\ last.op = "search_tools"
    /\ ClientReturned
    /\ Len(last.value.items) = 2
    /\ Len(tools_cache) = 1
    /\ last.value.items[1] # tools_cache[1]

====
